---------------------------- MODULE Spec2Model ----------------------------
(***************************************************************************)
(* A model of the durable key-value store: the append-only log             *)
(* (storage.py), the liveness engine (engine.py) and the command handlers  *)
(* with their transaction overlay (main.py).                               *)
(*                                                                         *)
(* Strings of the program are sequences of one-character strings, so that  *)
(* formatting a record and parsing a line are computed character by        *)
(* character, as the code does.  The log file is the sequence of the       *)
(* characters on disk.                                                     *)
(***************************************************************************)
EXTENDS Integers, Sequences, FiniteSets, TLC

(***************************************************************************)
(* Bounds of the model.                                                    *)
(***************************************************************************)
\* appended records plus buffered transaction operations
MaxLog == 3
\* the clock runs from 0 to MaxClock
MaxClock == 1
\* crashes per behaviour (SpecCrash)
MaxCrash == 1

(***************************************************************************)
(* Inputs the commands are issued with.                                    *)
(***************************************************************************)
Keys == {<<"a">>, <<"b">>}
Values == {<<"1">>, <<"2">>}
Millis == {-1, 1}
\* the (start, end) pairs RANGE is issued with
RangeArgs == {<< <<>>, <<>> >>, << <<>>, <<"a">> >>, << <<"b">>, <<>> >>}
\* the milliseconds EXPIRE is issued with in the behaviours of the engine
\* alone, and in those of the transaction overlay
ExpireMillis == {-1, 0, 1}
TxMillis == {1}
\* the inputs of the behaviours with crashes
CrashKeys == {<<"a">>}
CrashValues == {<<"1">>, <<"2">>}
CrashMillis == {1}

\* the inputs of the behaviours with long hyphenated keys: a key of the
\* 8-4-4-4-12 hexadecimal shape, and a key of 17 characters with a hyphen
\* that is not of that shape
UuidKey ==
    <<"0", "0", "0", "0", "0", "0", "0", "0", "-", "0", "0", "0",
      "0", "-", "0", "0", "0", "0", "-", "0", "0", "0", "0", "-",
      "0", "0", "0", "0", "0", "0", "0", "0", "0", "0", "0", "0">>
DashKey ==
    <<"x", "x", "x", "x", "x", "x", "x", "x", "-", "x", "x", "x",
      "x", "x", "x", "x", "x">>
SynthKeys == {UuidKey, DashKey, <<"a">>}
SynthValues == {<<"1">>}

(***************************************************************************)
(* Strings.                                                                *)
(***************************************************************************)
\* Python's None (a value no string of the program equals)
None == <<"None">>

Whitespace == {" ", "\n", "\t", "\r"}

Digits == <<"0", "1", "2", "3", "4", "5", "6", "7", "8", "9">>

DigitSet == {Digits[i] : i \in 1..10}

DigitVal(c) == (CHOOSE i \in 1..10 : Digits[i] = c) - 1

RECURSIVE NatToStr(_)
NatToStr(n) ==
    IF n < 10 THEN <<Digits[n + 1]>>
    ELSE NatToStr(n \div 10) \o <<Digits[(n % 10) + 1]>>

\* str(int) / f"{int(n)}"
IntToStr(n) == IF n < 0 THEN <<"-">> \o NatToStr(-n) ELSE NatToStr(n)

RECURSIVE Strip(_)
Strip(s) ==
    IF s = <<>> THEN s
    ELSE IF s[1] \in Whitespace THEN Strip(Tail(s))
    ELSE IF s[Len(s)] \in Whitespace THEN Strip(SubSeq(s, 1, Len(s) - 1))
    ELSE s

\* the digits of a stripped literal, its sign removed
IntBody(s) ==
    LET t == Strip(s)
    IN  IF t # <<>> /\ t[1] \in {"-", "+"} THEN Tail(t) ELSE t

\* int(s) does not raise ValueError
IsIntStr(s) ==
    LET b == IntBody(s)
    IN  b # <<>> /\ \A i \in 1..Len(b) : b[i] \in DigitSet

RECURSIVE NatVal(_)
NatVal(b) ==
    IF b = <<>> THEN 0
    ELSE 10 * NatVal(SubSeq(b, 1, Len(b) - 1)) + DigitVal(b[Len(b)])

\* int(s), for a literal int() accepts
IntVal(s) ==
    LET t == Strip(s)
    IN  IF t # <<>> /\ t[1] = "-" THEN 0 - NatVal(IntBody(s))
        ELSE NatVal(IntBody(s))

\* the position of the first c in s, 0 when there is none
FirstIdx(s, c) ==
    IF \E i \in 1..Len(s) : s[i] = c
    THEN CHOOSE i \in 1..Len(s) : s[i] = c /\ \A j \in 1..(i - 1) : s[j] # c
    ELSE 0

\* line.split(" ", 2)
Split2(line) ==
    LET i == FirstIdx(line, " ")
    IN  IF i = 0 THEN <<line>>
        ELSE LET rest == SubSeq(line, i + 1, Len(line))
                 j == FirstIdx(rest, " ")
             IN  IF j = 0 THEN <<SubSeq(line, 1, i - 1), rest>>
                 ELSE <<SubSeq(line, 1, i - 1), SubSeq(rest, 1, j - 1),
                        SubSeq(rest, j + 1, Len(rest))>>

\* _KEY_RE = ^\S+$ : one or more non-whitespace characters ($ also matches
\* before one trailing newline)
KEY_RE(k) ==
    LET core == IF k # <<>> /\ k[Len(k)] = "\n"
                THEN SubSeq(k, 1, Len(k) - 1) ELSE k
    IN  core # <<>> /\ \A i \in 1..Len(core) : core[i] \notin Whitespace

S_SET == <<"S", "E", "T">>
S_DEL == <<"D", "E", "L">>
S_EXPIREAT == <<"E", "X", "P", "I", "R", "E", "A", "T">>
S_PERSIST == <<"P", "E", "R", "S", "I", "S", "T">>
MSG_OK == <<"O", "K">>
MSG_NIL == <<"n", "i", "l">>
MSG_END == <<"E", "N", "D">>
ERR_TX_NESTED ==
    <<"E", "R", "R", " ", "t", "r", "a", "n", "s", "a", "c", "t",
      "i", "o", "n", " ", "a", "l", "r", "e", "a", "d", "y", " ",
      "i", "n", " ", "p", "r", "o", "g", "r", "e", "s", "s">>
ERR_NO_TX ==
    <<"E", "R", "R", " ", "n", "o", " ", "t", "r", "a", "n", "s",
      "a", "c", "t", "i", "o", "n">>
ERR_INTERNAL ==
    <<"E", "R", "R", " ", "i", "n", "t", "e", "r", "n", "a", "l">>

(***************************************************************************)
(* storage.py: the append-only log.                                        *)
(***************************************************************************)
\* the lines of the file as iterating the file yields them, each with its
\* terminator stripped (raw.rstrip("\n")); the last one may be unterminated
RECURSIVE SplitLines(_)
SplitLines(f) ==
    IF f = <<>> THEN <<>>
    ELSE LET i == FirstIdx(f, "\n")
         IN  IF i = 0 THEN <<f>>
             ELSE <<SubSeq(f, 1, i - 1)>> \o SplitLines(SubSeq(f, i + 1, Len(f)))

BadLine == [ok |-> FALSE, op |-> "", key |-> <<>>, arg |-> <<>>]

\* AppendOnlyLog._parse_and_validate (max_key_len, max_value_len are None)
parse_and_validate(line) ==
    LET parts == Split2(line)
        op == parts[1]
    IN  IF op = S_SET
        THEN IF Len(parts) # 3 THEN BadLine
             ELSE IF ~KEY_RE(parts[2]) THEN BadLine
             ELSE [ok |-> TRUE, op |-> "SET", key |-> parts[2], arg |-> parts[3]]
        ELSE IF op \in {S_DEL, S_PERSIST}
        THEN IF Len(parts) # 2 THEN BadLine
             ELSE IF ~KEY_RE(parts[2]) THEN BadLine
             ELSE [ok |-> TRUE, op |-> IF op = S_DEL THEN "DEL" ELSE "PERSIST",
                   key |-> parts[2], arg |-> <<>>]
        ELSE IF op = S_EXPIREAT
        THEN IF Len(parts) # 3 THEN BadLine
             ELSE IF ~KEY_RE(parts[2]) THEN BadLine
             ELSE IF ~IsIntStr(parts[3]) THEN BadLine
             ELSE [ok |-> TRUE, op |-> "EXPIREAT", key |-> parts[2],
                   arg |-> parts[3]]
        ELSE BadLine

RECURSIVE ReplayLines(_)
ReplayLines(ls) ==
    IF ls = <<>> THEN <<>>
    ELSE LET line == Head(ls)
             p == parse_and_validate(line)
         IN  IF line = <<>> THEN ReplayLines(Tail(ls))
             ELSE IF ~p.ok THEN ReplayLines(Tail(ls))
             ELSE <<[op |-> p.op, key |-> p.key, arg |-> p.arg]>>
                  \o ReplayLines(Tail(ls))

\* AppendOnlyLog.replay (strict = False): the records of every line of the
\* file, the last line included whether or not it is terminated
replay(f) == ReplayLines(SplitLines(f))

\* the lines the append_* methods write
SetLine(key, value) == S_SET \o <<" ">> \o key \o <<" ">> \o value \o <<"\n">>
DelLine(key) == S_DEL \o <<" ">> \o key \o <<"\n">>
ExpireatLine(key, ms) ==
    S_EXPIREAT \o <<" ">> \o key \o <<" ">> \o IntToStr(ms) \o <<"\n">>
PersistLine(key) == S_PERSIST \o <<" ">> \o key \o <<"\n">>

\* AppendOnlyLog._validate_key_value_or_raise does not raise
validate_key_value(key, value) ==
    KEY_RE(key) /\ \A i \in 1..Len(value) : value[i] # "\n"

\* AppendOnlyLog._append_line: open(path, "a"), write, flush, fsync
append_line(f, line) == f \o line

(***************************************************************************)
(* The ordered index (BPlusTreeIndex): a map from key to latest value with  *)
(* point get, set and ascending iteration.                                  *)
(***************************************************************************)
\* the characters of the model in code-point order
Alphabet ==
    <<"\t", "\n", "\r", " ", "+", "-",
      "0", "1", "2", "3", "4", "5", "6", "7", "8", "9",
      "A", "D", "E", "I", "L", "P", "R", "S", "T", "X",
      "a", "b", "c", "d", "e", "f", "x", "y">>

Ord(c) == FirstIdx(Alphabet, c)

\* a < b for Python strings
RECURSIVE StrLess(_, _)
StrLess(a, b) ==
    IF b = <<>> THEN FALSE
    ELSE IF a = <<>> THEN TRUE
    ELSE IF a[1] = b[1] THEN StrLess(Tail(a), Tail(b))
    ELSE Ord(a[1]) < Ord(b[1])

\* sorted(S)
RECURSIVE SortSet(_)
SortSet(S) ==
    IF S = {} THEN <<>>
    ELSE LET m == CHOOSE x \in S : \A y \in S : x = y \/ StrLess(x, y)
         IN  <<m>> \o SortSet(S \ {m})

DictPut(d, k, v) == [x \in (DOMAIN d) \cup {k} |-> IF x = k THEN v ELSE d[x]]
DictPop(d, k) == [x \in (DOMAIN d) \ {k} |-> d[x]]
EmptyDict == [x \in {} |-> None]

IndexSet(ix, k, v) == DictPut(ix, k, v)
IndexGet(ix, k) == IF k \in DOMAIN ix THEN ix[k] ELSE None
IndexItems(ix) == SortSet(DOMAIN ix)

(***************************************************************************)
(* engine.py: KVEngine.  An engine state is a record of the index, the     *)
(* tombstone set, the TTL table and the log file the engine appends to.    *)
(* An operation yields the state after it (st), what it returns (ret), the *)
(* records whose append returned (recs), the keys whose TTL _is_expired    *)
(* found elapsed (expd), and whether it raised.                            *)
(***************************************************************************)
EmptyEngine(f) ==
    [index |-> EmptyDict, tombstones |-> {}, ttl |-> EmptyDict, file |-> f]

Rec(op, key, val, ms) == [op |-> op, key |-> key, val |-> val, ms |-> ms]

\* a replay whose DEL branch leaves the TTL entry of the key
ApplyRecord_del_keeps_ttl(s, r) ==
    IF r.op = "SET"
    THEN [s EXCEPT !.index = IndexSet(@, r.key, r.arg),
                   !.tombstones = @ \ {r.key}]
    ELSE IF r.op = "DEL"
    THEN [s EXCEPT !.tombstones = @ \cup {r.key}]
    ELSE IF r.op = "EXPIREAT"
    THEN IF ~IsIntStr(r.arg) THEN s
         ELSE [s EXCEPT !.ttl = DictPut(@, r.key, IntVal(r.arg))]
    ELSE IF r.op = "PERSIST"
    THEN [s EXCEPT !.ttl = DictPop(@, r.key)]
    ELSE s

\* one record of _load_from_log's loop
ApplyRecord(s, r) ==
    IF r.op = "SET"
    THEN [s EXCEPT !.index = IndexSet(@, r.key, r.arg),
                   !.tombstones = @ \ {r.key}]
    ELSE IF r.op = "DEL"
    THEN [s EXCEPT !.tombstones = @ \cup {r.key}, !.ttl = DictPop(@, r.key)]
    ELSE IF r.op = "EXPIREAT"
    THEN IF ~IsIntStr(r.arg) THEN s
         ELSE [s EXCEPT !.ttl = DictPut(@, r.key, IntVal(r.arg))]
    ELSE IF r.op = "PERSIST"
    THEN [s EXCEPT !.ttl = DictPop(@, r.key)]
    ELSE s

RECURSIVE LoadLoop(_, _)
LoadLoop(s, rs) ==
    IF rs = <<>> THEN s ELSE LoadLoop(ApplyRecord(s, Head(rs)), Tail(rs))

\* KVEngine.__init__ / KVEngine._load_from_log
load_from_log(f) == LoadLoop(EmptyEngine(f), replay(f))

\* _is_expired with the deadline itself still counted as alive
is_expired_late(s, key, now_ms) ==
    IF key \notin DOMAIN s.ttl THEN [st |-> s, ret |-> FALSE]
    ELSE IF s.ttl[key] >= now_ms THEN [st |-> s, ret |-> FALSE]
    ELSE [st |-> [s EXCEPT !.ttl = DictPop(@, key),
                           !.tombstones = @ \cup {key}],
          ret |-> TRUE]

\* KVEngine._is_expired
is_expired(s, key, now_ms) ==
    IF key \notin DOMAIN s.ttl THEN [st |-> s, ret |-> FALSE]
    ELSE IF s.ttl[key] > now_ms THEN [st |-> s, ret |-> FALSE]
    ELSE [st |-> [s EXCEPT !.ttl = DictPop(@, key),
                           !.tombstones = @ \cup {key}],
          ret |-> TRUE]

\* KVEngine._is_alive
is_alive(s, key, now_ms) ==
    IF key \in s.tombstones THEN [st |-> s, ret |-> FALSE, expd |-> {}]
    ELSE IF IndexGet(s.index, key) = None
    THEN [st |-> s, ret |-> FALSE, expd |-> {}]
    ELSE LET e == is_expired(s, key, now_ms)
         IN  [st |-> e.st, ret |-> ~e.ret,
              expd |-> IF e.ret THEN {key} ELSE {}]

Result(st, ret, recs, expd, raised) ==
    [st |-> st, ret |-> ret, recs |-> recs, expd |-> expd, raised |-> raised]

\* set that also drops the key's TTL
KVset_clears_ttl(s, key, value) ==
    IF ~validate_key_value(key, value)
    THEN Result(s, None, <<>>, {}, TRUE)
    ELSE Result([s EXCEPT !.file = append_line(@, SetLine(key, value)),
                          !.index = IndexSet(@, key, value),
                          !.tombstones = @ \ {key},
                          !.ttl = DictPop(@, key)],
                None, <<Rec("SET", key, value, 0)>>, {}, FALSE)

\* KVEngine.set
KVset(s, key, value) ==
    IF ~validate_key_value(key, value)
    THEN Result(s, None, <<>>, {}, TRUE)
    ELSE Result([s EXCEPT !.file = append_line(@, SetLine(key, value)),
                          !.index = IndexSet(@, key, value),
                          !.tombstones = @ \ {key}],
                None, <<Rec("SET", key, value, 0)>>, {}, FALSE)

\* KVEngine.get
KVget(s, key, now_ms) ==
    LET a == is_alive(s, key, now_ms)
    IN  Result(a.st, IF ~a.ret THEN None ELSE IndexGet(a.st.index, key),
               <<>>, a.expd, FALSE)

\* delete that leaves the TTL entry of the key it tombstones
KVdelete_keeps_ttl(s, key, now_ms) ==
    LET a == is_alive(s, key, now_ms)
    IN  IF ~a.ret
        THEN Result([a.st EXCEPT !.ttl = DictPop(@, key)], FALSE, <<>>,
                    a.expd, FALSE)
        ELSE LET m == [a.st EXCEPT !.tombstones = @ \cup {key}]
             IN  IF ~KEY_RE(key) THEN Result(m, FALSE, <<>>, a.expd, TRUE)
                 ELSE Result([m EXCEPT !.file = append_line(@, DelLine(key))],
                             TRUE, <<Rec("DEL", key, <<>>, 0)>>, a.expd, FALSE)

\* KVEngine.delete
KVdelete(s, key, now_ms) ==
    LET a == is_alive(s, key, now_ms)
    IN  IF ~a.ret
        THEN Result([a.st EXCEPT !.ttl = DictPop(@, key)], FALSE, <<>>,
                    a.expd, FALSE)
        ELSE LET m == [a.st EXCEPT !.tombstones = @ \cup {key},
                                   !.ttl = DictPop(@, key)]
             IN  IF ~KEY_RE(key) THEN Result(m, FALSE, <<>>, a.expd, TRUE)
                 ELSE Result([m EXCEPT !.file = append_line(@, DelLine(key))],
                             TRUE, <<Rec("DEL", key, <<>>, 0)>>, a.expd, FALSE)

\* KVEngine.exists
KVexists(s, key, now_ms) ==
    LET a == is_alive(s, key, now_ms)
    IN  Result(a.st, a.ret, <<>>, a.expd, FALSE)

\* expire that skips the liveness check of an indexed key and clears its
\* tombstone
KVexpire_revives(s, key, ms, now_ms) ==
    LET deadline == now_ms + ms
    IN  IF IndexGet(s.index, key) = None THEN Result(s, FALSE, <<>>, {}, FALSE)
        ELSE Result([s EXCEPT !.ttl = DictPut(@, key, deadline),
                              !.tombstones = @ \ {key},
                              !.file = append_line(@, ExpireatLine(key, deadline))],
                    TRUE, <<Rec("EXPIREAT", key, <<>>, deadline)>>, {}, FALSE)

\* expire that logs the relative milliseconds instead of the deadline
KVexpire_relative(s, key, ms, now_ms) ==
    LET a == is_alive(s, key, now_ms)
        deadline == now_ms + ms
    IN  IF ~a.ret THEN Result(a.st, FALSE, <<>>, a.expd, FALSE)
        ELSE LET m == [a.st EXCEPT !.ttl = DictPut(@, key, deadline)]
             IN  IF ~KEY_RE(key) THEN Result(m, FALSE, <<>>, a.expd, TRUE)
                 ELSE Result([m EXCEPT !.file =
                                  append_line(@, ExpireatLine(key, ms))],
                             TRUE, <<Rec("EXPIREAT", key, <<>>, ms)>>,
                             a.expd, FALSE)

\* KVEngine.expire
KVexpire(s, key, ms, now_ms) ==
    LET a == is_alive(s, key, now_ms)
        deadline == now_ms + ms
    IN  IF ~a.ret THEN Result(a.st, FALSE, <<>>, a.expd, FALSE)
        ELSE LET m == [a.st EXCEPT !.ttl = DictPut(@, key, deadline)]
             IN  IF ~KEY_RE(key) THEN Result(m, FALSE, <<>>, a.expd, TRUE)
                 ELSE Result([m EXCEPT !.file =
                                  append_line(@, ExpireatLine(key, deadline))],
                             TRUE, <<Rec("EXPIREAT", key, <<>>, deadline)>>,
                             a.expd, FALSE)

\* ttl that computes the remaining time without the liveness check
KVttl_unchecked(s, key, now_ms) ==
    IF key \in s.tombstones \/ IndexGet(s.index, key) = None
    THEN Result(s, -2, <<>>, {}, FALSE)
    ELSE IF key \notin DOMAIN s.ttl THEN Result(s, -1, <<>>, {}, FALSE)
    ELSE Result(s, s.ttl[key] - now_ms, <<>>, {}, FALSE)

\* KVEngine.ttl
KVttl(s, key, now_ms) ==
    LET a == is_alive(s, key, now_ms)
    IN  IF ~a.ret THEN Result(a.st, -2, <<>>, a.expd, FALSE)
        ELSE IF key \notin DOMAIN a.st.ttl
        THEN Result(a.st, -1, <<>>, a.expd, FALSE)
        ELSE IF a.st.ttl[key] <= now_ms
        THEN Result([a.st EXCEPT !.ttl = DictPop(@, key),
                                 !.tombstones = @ \cup {key}],
                    -2, <<>>, a.expd, FALSE)
        ELSE Result(a.st, a.st.ttl[key] - now_ms, <<>>, a.expd, FALSE)

\* KVEngine.persist
KVpersist(s, key, now_ms) ==
    LET a == is_alive(s, key, now_ms)
    IN  IF ~a.ret THEN Result(a.st, FALSE, <<>>, a.expd, FALSE)
        ELSE IF key \notin DOMAIN a.st.ttl
        THEN Result(a.st, FALSE, <<>>, a.expd, FALSE)
        ELSE LET m == [a.st EXCEPT !.ttl = DictPop(@, key)]
             IN  IF ~KEY_RE(key) THEN Result(m, FALSE, <<>>, a.expd, TRUE)
                 ELSE Result([m EXCEPT !.file =
                                  append_line(@, PersistLine(key))],
                             TRUE, <<Rec("PERSIST", key, <<>>, 0)>>,
                             a.expd, FALSE)

\* AppendOnlyLog._append_line raising OSError: open() failed and the file is
\* as it was, or the line was written and flush() or fsync() failed
append_line_oserror(f, line, written) == IF written THEN f \o line ELSE f

\* KVEngine.set, its append raising OSError
KVset_oserror(s, key, value, written) ==
    IF ~validate_key_value(key, value)
    THEN Result(s, None, <<>>, {}, TRUE)
    ELSE Result([s EXCEPT !.file =
                     append_line_oserror(@, SetLine(key, value), written)],
                None, <<>>, {}, TRUE)

\* KVEngine.delete, its append raising OSError
KVdelete_oserror(s, key, now_ms, written) ==
    LET a == is_alive(s, key, now_ms)
    IN  IF ~a.ret
        THEN Result([a.st EXCEPT !.ttl = DictPop(@, key)], FALSE, <<>>,
                    a.expd, FALSE)
        ELSE LET m == [a.st EXCEPT !.tombstones = @ \cup {key},
                                   !.ttl = DictPop(@, key)]
             IN  IF ~KEY_RE(key) THEN Result(m, FALSE, <<>>, a.expd, TRUE)
                 ELSE Result([m EXCEPT !.file =
                                  append_line_oserror(@, DelLine(key), written)],
                             FALSE, <<>>, a.expd, TRUE)

\* KVEngine.expire, its append raising OSError
KVexpire_oserror(s, key, ms, now_ms, written) ==
    LET a == is_alive(s, key, now_ms)
        deadline == now_ms + ms
    IN  IF ~a.ret THEN Result(a.st, FALSE, <<>>, a.expd, FALSE)
        ELSE LET m == [a.st EXCEPT !.ttl = DictPut(@, key, deadline)]
             IN  IF ~KEY_RE(key) THEN Result(m, FALSE, <<>>, a.expd, TRUE)
                 ELSE Result([m EXCEPT !.file =
                                  append_line_oserror(
                                      @, ExpireatLine(key, deadline), written)],
                             FALSE, <<>>, a.expd, TRUE)

\* KVEngine.persist, its append raising OSError
KVpersist_oserror(s, key, now_ms, written) ==
    LET a == is_alive(s, key, now_ms)
    IN  IF ~a.ret THEN Result(a.st, FALSE, <<>>, a.expd, FALSE)
        ELSE IF key \notin DOMAIN a.st.ttl
        THEN Result(a.st, FALSE, <<>>, a.expd, FALSE)
        ELSE LET m == [a.st EXCEPT !.ttl = DictPop(@, key)]
             IN  IF ~KEY_RE(key) THEN Result(m, FALSE, <<>>, a.expd, TRUE)
                 ELSE Result([m EXCEPT !.file =
                                  append_line_oserror(
                                      @, PersistLine(key), written)],
                             FALSE, <<>>, a.expd, TRUE)

\* KVEngine._UUID_RE: five hyphen-separated groups of 8, 4, 4, 4 and 12
\* lower-case hexadecimal digits ($ also matches before one trailing newline)
HexDigits == DigitSet \cup {"a", "b", "c", "d", "e", "f"}

UUID_RE(k) ==
    LET core == IF k # <<>> /\ k[Len(k)] = "\n"
                THEN SubSeq(k, 1, Len(k) - 1) ELSE k
    IN  /\ Len(core) = 36
        /\ \A i \in 1..36 :
             IF i \in {9, 14, 19, 24} THEN core[i] = "-"
             ELSE core[i] \in HexDigits

\* the key filter of KVEngine.range_keys: "-" in k and len(k) > 16
NonPrimary(k) == (\E i \in 1..Len(k) : k[i] = "-") /\ Len(k) > 16

\* bounds with the upper bound excluded
InBounds_exclusive(k, start, end) ==
    /\ ~(start # <<>> /\ StrLess(k, start))
    /\ ~(end # <<>> /\ ~StrLess(k, end))

\* start <= k <= end, an empty bound being open
InBounds(k, start, end) ==
    /\ ~(start # <<>> /\ StrLess(k, start))
    /\ ~(end # <<>> /\ StrLess(end, k))

\* the loop of KVEngine.range_keys over the keys ks still to visit
RECURSIVE RangeLoop(_, _, _, _, _, _, _)
RangeLoop(s, ks, start, end, now_ms, acc, expd) ==
    IF ks = <<>> THEN Result(s, acc, <<>>, expd, FALSE)
    ELSE LET k == Head(ks)
         IN  IF NonPrimary(k)
             THEN RangeLoop(s, Tail(ks), start, end, now_ms, acc, expd)
             ELSE IF ~InBounds(k, start, end)
             THEN RangeLoop(s, Tail(ks), start, end, now_ms, acc, expd)
             ELSE LET a == is_alive(s, k, now_ms)
                  IN  RangeLoop(a.st, Tail(ks), start, end, now_ms,
                                IF a.ret THEN Append(acc, k) ELSE acc,
                                expd \cup a.expd)

\* KVEngine.range_keys, consumed to its end
range_keys(s, start, end, now_ms) ==
    RangeLoop(s, IndexItems(s.index), start, end, now_ms, <<>>, {})

(***************************************************************************)
(* main.py: the process.  Its state is the engine's fields and the log     *)
(* file, the clock, and the transaction overlay's globals.  What a command *)
(* prints is a function of the state it is issued in (the *_reply          *)
(* operators).  The remaining variables record history for the properties: *)
(*   txlog         the log file when the transaction began that is open or *)
(*                 that the last command aborted, and the number of        *)
(*                 operations the aborted transaction had buffered         *)
(*   deadObserved  keys whose TTL this engine's _is_expired found elapsed  *)
(*                 and that no set has been applied to since               *)
(*   acked         the records whose append returned, in order             *)
(*   crashTx       after a crash inside COMMIT: the file before the commit *)
(*                 and the file the whole commit would have written        *)
(***************************************************************************)
VARIABLES file, index, tombstones, ttl, now, in_tx, tx_buffer, tx_ops,
          running, crashes, txlog, deadObserved, acked, crashTx

vars == <<file, index, tombstones, ttl, now, in_tx, tx_buffer, tx_ops,
          running, crashes, txlog, deadObserved, acked, crashTx>>

\* the running engine
Eng == [index |-> index, tombstones |-> tombstones, ttl |-> ttl, file |-> file]

SetEng(s) ==
    /\ index' = s.index
    /\ tombstones' = s.tombstones
    /\ ttl' = s.ttl
    /\ file' = s.file

NoTxLog == [state |-> "none", file |-> <<>>, ops |-> 0]
NoCrashTx == [set |-> FALSE, pre |-> <<>>, full |-> <<>>]

\* the number of terminated lines of the file
NumLines(f) == Cardinality({i \in 1..Len(f) : f[i] = "\n"})

\* room for one more record or buffered operation within the model's bound
Room == NumLines(file) + Len(tx_ops) < MaxLog

\* what an engine call by a handler leaves in the history variables
Track(r, setKeys) ==
    /\ deadObserved' = (deadObserved \cup r.expd) \ setKeys
    /\ acked' = acked \o r.recs
    /\ txlog' = IF in_tx THEN txlog ELSE NoTxLog

Bool01(b) == IF b THEN <<"1">> ELSE <<"0">>

\* what a handler prints for a call that may have raised (main's except)
Reply(r, line) == IF r.raised THEN <<ERR_INTERNAL>> ELSE <<line>>

\* a transaction view that reads the engine past the buffer
tx_get_view_engine(s, buf, key, now_ms) == KVget(s, key, now_ms)

\* _tx_get_view
tx_get_view(s, buf, key, now_ms) ==
    IF key \in DOMAIN buf THEN Result(s, buf[key], <<>>, {}, FALSE)
    ELSE KVget(s, key, now_ms)

\* _tx_exists_view
tx_exists_view(s, buf, key, now_ms) ==
    LET g == tx_get_view(s, buf, key, now_ms)
    IN  [g EXCEPT !.ret = (g.ret # None)]

\* handle_set: the engine call of the branch outside a transaction
set_call(key, value) == KVset(Eng, key, value)

set_reply(key, value) ==
    IF in_tx THEN <<MSG_OK>> ELSE Reply(set_call(key, value), MSG_OK)

\* handle_set that writes through to the engine inside a transaction too
handle_set_through(key, value) ==
    /\ running /\ Room
    /\ LET r == set_call(key, value)
       IN  /\ SetEng(r.st)
           /\ Track(r, IF r.raised THEN {} ELSE {key})
           /\ tx_buffer' = IF in_tx THEN DictPut(tx_buffer, key, value)
                           ELSE tx_buffer
           /\ tx_ops' = IF in_tx
                        THEN Append(tx_ops, [op |-> "SET", args |-> <<key, value>>])
                        ELSE tx_ops
    /\ UNCHANGED <<now, in_tx, running, crashes, crashTx>>

handle_set(key, value) ==
    /\ running /\ Room
    /\ IF in_tx
       THEN /\ tx_buffer' = DictPut(tx_buffer, key, value)
            /\ tx_ops' = Append(tx_ops, [op |-> "SET", args |-> <<key, value>>])
            /\ UNCHANGED <<file, index, tombstones, ttl, deadObserved, acked,
                           txlog>>
       ELSE LET r == set_call(key, value)
            IN  /\ SetEng(r.st)
                /\ Track(r, IF r.raised THEN {} ELSE {key})
                /\ UNCHANGED <<tx_buffer, tx_ops>>
    /\ UNCHANGED <<now, in_tx, running, crashes, crashTx>>

\* handle_get
get_call(key) ==
    IF in_tx THEN tx_get_view(Eng, tx_buffer, key, now) ELSE KVget(Eng, key, now)

get_reply(key) ==
    LET r == get_call(key) IN <<IF r.ret = None THEN MSG_NIL ELSE r.ret>>

handle_get(key) ==
    /\ running
    /\ LET r == get_call(key) IN SetEng(r.st) /\ Track(r, {})
    /\ UNCHANGED <<now, in_tx, tx_buffer, tx_ops, running, crashes, crashTx>>

\* handle_del that buffers the delete of a key the transaction does not see
handle_del_blind(key) ==
    /\ running
    /\ LET r == IF in_tx THEN tx_exists_view(Eng, tx_buffer, key, now)
                 ELSE KVdelete(Eng, key, now)
       IN  /\ (in_tx \/ r.ret) => Room
           /\ SetEng(r.st)
           /\ Track(r, {})
           /\ tx_buffer' = IF in_tx THEN DictPut(tx_buffer, key, None)
                           ELSE tx_buffer
           /\ tx_ops' = IF in_tx
                        THEN Append(tx_ops, [op |-> "DEL", args |-> <<key>>])
                        ELSE tx_ops
    /\ UNCHANGED <<now, in_tx, running, crashes, crashTx>>

\* handle_del
del_call(key) ==
    IF in_tx THEN tx_exists_view(Eng, tx_buffer, key, now)
    ELSE KVdelete(Eng, key, now)

del_reply(key) == LET r == del_call(key) IN Reply(r, Bool01(r.ret))

handle_del(key) ==
    /\ running
    /\ LET r == del_call(key)
       IN  /\ r.ret => Room
           /\ SetEng(r.st)
           /\ Track(r, {})
           /\ tx_buffer' = IF in_tx /\ r.ret THEN DictPut(tx_buffer, key, None)
                           ELSE tx_buffer
           /\ tx_ops' = IF in_tx /\ r.ret
                        THEN Append(tx_ops, [op |-> "DEL", args |-> <<key>>])
                        ELSE tx_ops
    /\ UNCHANGED <<now, in_tx, running, crashes, crashTx>>

\* handle_exists
exists_call(key) ==
    IF in_tx THEN tx_exists_view(Eng, tx_buffer, key, now)
    ELSE KVexists(Eng, key, now)

exists_reply(key) == Bool01(exists_call(key).ret)

handle_exists(key) ==
    /\ running
    /\ LET r == exists_call(key) IN SetEng(r.st) /\ Track(r, {})
    /\ UNCHANGED <<now, in_tx, tx_buffer, tx_ops, running, crashes, crashTx>>

\* handle_expire
expire_call(key, ms) ==
    IF in_tx THEN tx_exists_view(Eng, tx_buffer, key, now)
    ELSE KVexpire(Eng, key, ms, now)

expire_reply(key, ms) == LET r == expire_call(key, ms) IN Reply(r, Bool01(r.ret))

handle_expire(key, ms) ==
    /\ running
    /\ LET r == expire_call(key, ms)
       IN  /\ r.ret => Room
           /\ SetEng(r.st)
           /\ Track(r, {})
           /\ tx_ops' = IF in_tx /\ r.ret
                        THEN Append(tx_ops, [op |-> "EXPIRE",
                                             args |-> <<key, IntToStr(ms)>>])
                        ELSE tx_ops
    /\ UNCHANGED <<now, in_tx, tx_buffer, running, crashes, crashTx>>

\* handle_ttl
ttl_call(key) == KVttl(Eng, key, now)

ttl_reply(key) == <<IntToStr(ttl_call(key).ret)>>

handle_ttl(key) ==
    /\ running
    /\ LET r == ttl_call(key) IN SetEng(r.st) /\ Track(r, {})
    /\ UNCHANGED <<now, in_tx, tx_buffer, tx_ops, running, crashes, crashTx>>

\* handle_persist
persist_call(key) ==
    IF in_tx THEN tx_exists_view(Eng, tx_buffer, key, now)
    ELSE KVpersist(Eng, key, now)

persist_reply(key) == LET r == persist_call(key) IN Reply(r, Bool01(r.ret))

handle_persist(key) ==
    /\ running
    /\ LET r == persist_call(key)
       IN  /\ r.ret => Room
           /\ SetEng(r.st)
           /\ Track(r, {})
           /\ tx_ops' = IF in_tx /\ r.ret
                        THEN Append(tx_ops, [op |-> "PERSIST", args |-> <<key>>])
                        ELSE tx_ops
    /\ UNCHANGED <<now, in_tx, tx_buffer, running, crashes, crashTx>>

\* the elements of a sequence
Range(seq) == {seq[i] : i \in 1..Len(seq)}

\* the key set with every pending-set key added, within the bounds or not
TxRangeKeys_unbounded(base, buf, start, end) ==
    {k \in base : ~(k \in DOMAIN buf /\ buf[k] = None)}
        \cup {k \in DOMAIN buf : buf[k] # None}

\* the key set handle_range builds while a transaction is open
TxRangeKeys(base, buf, start, end) ==
    {k \in base : ~(k \in DOMAIN buf /\ buf[k] = None)}
        \cup {k \in DOMAIN buf : buf[k] # None /\ InBounds(k, start, end)}

\* handle_range
range_call(start, end) == range_keys(Eng, start, end, now)

range_reply(start, end) ==
    LET r == range_call(start, end)
    IN  IF ~in_tx THEN Append(r.ret, MSG_END)
        ELSE Append(SortSet(TxRangeKeys(Range(r.ret), tx_buffer, start, end)),
                    MSG_END)

handle_range(start, end) ==
    /\ running
    /\ LET r == range_call(start, end) IN SetEng(r.st) /\ Track(r, {})
    /\ UNCHANGED <<now, in_tx, tx_buffer, tx_ops, running, crashes, crashTx>>

\* handle_begin that starts over inside an open transaction
handle_begin_resets ==
    /\ running
    /\ in_tx' = TRUE
    /\ tx_buffer' = EmptyDict
    /\ tx_ops' = <<>>
    /\ txlog' = IF in_tx THEN txlog
                ELSE [state |-> "open", file |-> file, ops |-> 0]
    /\ UNCHANGED <<file, index, tombstones, ttl, now, running, crashes,
                   deadObserved, acked, crashTx>>

\* handle_begin
begin_reply == IF in_tx THEN <<ERR_TX_NESTED>> ELSE <<MSG_OK>>

handle_begin ==
    /\ running
    /\ IF in_tx
       THEN UNCHANGED <<in_tx, tx_buffer, tx_ops, txlog>>
       ELSE /\ in_tx' = TRUE
            /\ tx_buffer' = EmptyDict
            /\ tx_ops' = <<>>
            /\ txlog' = [state |-> "open", file |-> file, ops |-> 0]
    /\ UNCHANGED <<file, index, tombstones, ttl, now, running, crashes,
                   deadObserved, acked, crashTx>>

\* one entry of handle_commit's loop
CommitOp(s, e, now_ms) ==
    IF e.op = "SET" THEN KVset(s, e.args[1], e.args[2])
    ELSE IF e.op = "DEL" THEN KVdelete(s, e.args[1], now_ms)
    ELSE IF e.op = "EXPIRE"
    THEN IF ~IsIntStr(e.args[2]) THEN Result(s, FALSE, <<>>, {}, FALSE)
         ELSE KVexpire(s, e.args[1], IntVal(e.args[2]), now_ms)
    ELSE IF e.op = "PERSIST" THEN KVpersist(s, e.args[1], now_ms)
    ELSE Result(s, FALSE, <<>>, {}, FALSE)

\* handle_commit's loop run over the entries from the newest to the oldest
RECURSIVE CommitLoop_newest_first(_, _, _, _, _)
CommitLoop_newest_first(s, ops, now_ms, recs, dead) ==
    IF ops = <<>> THEN [st |-> s, recs |-> recs, dead |-> dead, raised |-> FALSE]
    ELSE LET e == ops[Len(ops)]
             r == CommitOp(s, e, now_ms)
             d == IF e.op = "SET" /\ ~r.raised
                  THEN dead \ {e.args[1]}
                  ELSE dead \cup r.expd
         IN  IF r.raised
             THEN [st |-> r.st, recs |-> recs \o r.recs, dead |-> d,
                   raised |-> TRUE]
             ELSE CommitLoop_newest_first(r.st, SubSeq(ops, 1, Len(ops) - 1),
                                          now_ms, recs \o r.recs, d)

\* handle_commit's loop over the entries ops, stopped by an entry that
\* raises; dead are the keys found expired and not set since
RECURSIVE CommitLoop(_, _, _, _, _)
CommitLoop(s, ops, now_ms, recs, dead) ==
    IF ops = <<>> THEN [st |-> s, recs |-> recs, dead |-> dead, raised |-> FALSE]
    ELSE LET r == CommitOp(s, Head(ops), now_ms)
             d == IF Head(ops).op = "SET" /\ ~r.raised
                  THEN dead \ {Head(ops).args[1]}
                  ELSE dead \cup r.expd
         IN  IF r.raised
             THEN [st |-> r.st, recs |-> recs \o r.recs, dead |-> d,
                   raised |-> TRUE]
             ELSE CommitLoop(r.st, Tail(ops), now_ms, recs \o r.recs, d)

\* handle_commit
commit_call == CommitLoop(Eng, tx_ops, now, <<>>, deadObserved)

commit_reply ==
    IF ~in_tx THEN <<ERR_NO_TX>> ELSE Reply(commit_call, MSG_OK)

handle_commit ==
    /\ running
    /\ IF ~in_tx
       THEN UNCHANGED <<file, index, tombstones, ttl, in_tx, tx_buffer,
                        tx_ops, txlog, deadObserved, acked>>
       ELSE LET c == commit_call
            IN  /\ SetEng(c.st)
                /\ deadObserved' = c.dead
                /\ acked' = acked \o c.recs
                /\ in_tx' = c.raised
                /\ tx_buffer' = IF c.raised THEN tx_buffer ELSE EmptyDict
                /\ tx_ops' = IF c.raised THEN tx_ops ELSE <<>>
                /\ txlog' = IF c.raised THEN txlog ELSE NoTxLog
    /\ UNCHANGED <<now, running, crashes, crashTx>>

\* handle_abort
abort_reply == IF ~in_tx THEN <<ERR_NO_TX>> ELSE <<MSG_OK>>

handle_abort ==
    /\ running
    /\ IF ~in_tx
       THEN UNCHANGED <<in_tx, tx_buffer, tx_ops, txlog>>
       ELSE /\ in_tx' = FALSE
            /\ tx_buffer' = EmptyDict
            /\ tx_ops' = <<>>
            /\ txlog' = [txlog EXCEPT !.state = "aborted", !.ops = Len(tx_ops)]
    /\ UNCHANGED <<file, index, tombstones, ttl, now, running, crashes,
                   deadObserved, acked, crashTx>>

\* handle_set, the engine's append raising OSError: main's except prints
\* ERR_INTERNAL and the loop goes on
handle_set_oserror(key, value, written) ==
    /\ running /\ ~in_tx /\ Room
    /\ LET r == KVset_oserror(Eng, key, value, written)
       IN  /\ r.raised
           /\ SetEng(r.st)
           /\ Track(r, {})
    /\ UNCHANGED <<now, in_tx, tx_buffer, tx_ops, running, crashes, crashTx>>

\* handle_del, the engine's append raising OSError: main's except prints
\* ERR_INTERNAL and the loop goes on
handle_del_oserror(key, written) ==
    /\ running /\ ~in_tx /\ Room
    /\ LET r == KVdelete_oserror(Eng, key, now, written)
       IN  /\ r.raised
           /\ SetEng(r.st)
           /\ Track(r, {})
    /\ UNCHANGED <<now, in_tx, tx_buffer, tx_ops, running, crashes, crashTx>>

\* handle_expire, the engine's append raising OSError: main's except prints
\* ERR_INTERNAL and the loop goes on
handle_expire_oserror(key, ms, written) ==
    /\ running /\ ~in_tx /\ Room
    /\ LET r == KVexpire_oserror(Eng, key, ms, now, written)
       IN  /\ r.raised
           /\ SetEng(r.st)
           /\ Track(r, {})
    /\ UNCHANGED <<now, in_tx, tx_buffer, tx_ops, running, crashes, crashTx>>

\* handle_persist, the engine's append raising OSError: main's except prints
\* ERR_INTERNAL and the loop goes on
handle_persist_oserror(key, written) ==
    /\ running /\ ~in_tx /\ Room
    /\ LET r == KVpersist_oserror(Eng, key, now, written)
       IN  /\ r.raised
           /\ SetEng(r.st)
           /\ Track(r, {})
    /\ UNCHANGED <<now, in_tx, tx_buffer, tx_ops, running, crashes, crashTx>>

\* time.time() moves on between two commands
Tick ==
    /\ running
    /\ now < MaxClock
    /\ now' = now + 1
    /\ UNCHANGED <<file, index, tombstones, ttl, in_tx, tx_buffer, tx_ops,
                   running, crashes, txlog, deadObserved, acked, crashTx>>

\* main(): the module's globals as initialised, and KVEngine(db_path)
\* rebuilding the engine from the log file
Start ==
    /\ SetEng(load_from_log(file))
    /\ in_tx' = FALSE
    /\ tx_buffer' = EmptyDict
    /\ tx_ops' = <<>>
    /\ running' = TRUE
    /\ txlog' = NoTxLog
    /\ deadObserved' = {}
    /\ crashTx' = NoCrashTx

\* the process exits (EXIT, end of input) and is started again
Restart ==
    /\ running
    /\ Start
    /\ UNCHANGED <<now, crashes, acked>>

\* the process is started again after a crash
Recover ==
    /\ ~running
    /\ Start
    /\ UNCHANGED <<now, crashes, acked>>

\* what a crash leaves: the file, the clock and the history
Crashed ==
    /\ running' = FALSE
    /\ crashes' = crashes + 1
    /\ index' = EmptyDict
    /\ tombstones' = {}
    /\ ttl' = EmptyDict
    /\ in_tx' = FALSE
    /\ tx_buffer' = EmptyDict
    /\ tx_ops' = <<>>
    /\ txlog' = NoTxLog
    /\ deadObserved' = {}
    /\ UNCHANGED now

\* the lines an engine write appends outside a transaction
WriteLines ==
    {SetLine(k, v) : k \in CrashKeys, v \in CrashValues}
        \cup {SubSeq(r.st.file, Len(file) + 1, Len(r.st.file)) :
                r \in {KVdelete(Eng, k, now) : k \in CrashKeys}
                      \cup {KVpersist(Eng, k, now) : k \in CrashKeys}
                      \cup {KVexpire(Eng, k[1], k[2], now) :
                               k \in CrashKeys \X CrashMillis}}

\* the process dies inside _append_line, a proper prefix of the line written
CrashInAppend ==
    /\ running /\ ~in_tx /\ Room
    /\ crashes < MaxCrash
    /\ \E line \in WriteLines :
         \E n \in 1..(Len(line) - 1) :
            file' = file \o SubSeq(line, 1, n)
    /\ Crashed
    /\ UNCHANGED <<acked, crashTx>>

\* the process dies inside handle_commit, n of the entries applied
CrashInCommit ==
    /\ running /\ in_tx
    /\ crashes < MaxCrash
    /\ \E n \in 0..Len(tx_ops) :
         LET c == CommitLoop(Eng, SubSeq(tx_ops, 1, n), now, <<>>, {})
             full == CommitLoop(Eng, tx_ops, now, <<>>, {})
         IN  /\ file' = c.st.file
             /\ acked' = acked \o c.recs
             /\ crashTx' = [set |-> TRUE, pre |-> file, full |-> full.st.file]
    /\ Crashed

Init ==
    /\ file = <<>>
    /\ index = EmptyDict
    /\ tombstones = {}
    /\ ttl = EmptyDict
    /\ now = 0
    /\ in_tx = FALSE
    /\ tx_buffer = EmptyDict
    /\ tx_ops = <<>>
    /\ running = TRUE
    /\ crashes = 0
    /\ txlog = NoTxLog
    /\ deadObserved = {}
    /\ acked = <<>>
    /\ crashTx = NoCrashTx

Command ==
    \/ \E k \in Keys, v \in Values : handle_set(k, v)
    \/ \E k \in Keys : handle_get(k)
    \/ \E k \in Keys : handle_del(k)
    \/ \E k \in Keys : handle_exists(k)
    \/ \E k \in Keys, ms \in Millis : handle_expire(k, ms)
    \/ \E k \in Keys : handle_ttl(k)
    \/ \E k \in Keys : handle_persist(k)
    \/ \E b \in RangeArgs : handle_range(b[1], b[2])
    \/ handle_begin
    \/ handle_commit
    \/ handle_abort

Next ==
    \/ Command
    \/ Tick
    \/ Restart

Spec == Init /\ [][Next]_vars

NextCrash ==
    \/ \E k \in CrashKeys, v \in CrashValues : handle_set(k, v)
    \/ \E k \in CrashKeys : handle_del(k)
    \/ \E k \in CrashKeys, ms \in CrashMillis : handle_expire(k, ms)
    \/ \E k \in CrashKeys : handle_persist(k)
    \/ handle_begin
    \/ handle_commit
    \/ CrashInAppend
    \/ CrashInCommit
    \/ Recover

SpecCrash == Init /\ [][NextCrash]_vars

NextSynth ==
    \/ \E k \in SynthKeys, v \in SynthValues : handle_set(k, v)
    \/ \E k \in SynthKeys : handle_del(k)
    \/ handle_range(<<>>, <<>>)
    \/ handle_begin
    \/ handle_commit
    \/ handle_abort

SpecSynth == Init /\ [][NextSynth]_vars

\* the commands outside a transaction: the engine's operations alone
NextEngine ==
    \/ \E k \in Keys, v \in Values : handle_set(k, v)
    \/ \E k \in Keys : handle_get(k)
    \/ \E k \in Keys : handle_del(k)
    \/ \E k \in Keys : handle_exists(k)
    \/ \E k \in Keys, ms \in ExpireMillis : handle_expire(k, ms)
    \/ \E k \in Keys : handle_ttl(k)
    \/ \E k \in Keys : handle_persist(k)
    \/ \E b \in RangeArgs : handle_range(b[1], b[2])
    \/ Tick
    \/ Restart

SpecEngine == Init /\ [][NextEngine]_vars

\* the commands the transaction overlay answers from its buffer, over an
\* engine whose keys are set, deleted and expired
NextTx ==
    \/ \E k \in Keys, v \in Values : handle_set(k, v)
    \/ \E k \in Keys : handle_get(k)
    \/ \E k \in Keys : handle_del(k)
    \/ \E k \in Keys : handle_exists(k)
    \/ \E k \in Keys, ms \in TxMillis : handle_expire(k, ms)
    \/ \E b \in RangeArgs : handle_range(b[1], b[2])
    \/ handle_begin
    \/ handle_commit
    \/ handle_abort
    \/ Tick

SpecTx == Init /\ [][NextTx]_vars

\* the engine's write commands outside a transaction, each with its append
\* returning or raising OSError
NextIO ==
    \/ \E k \in Keys, v \in Values : handle_set(k, v)
    \/ \E k \in Keys : handle_del(k)
    \/ \E k \in Keys, ms \in Millis : handle_expire(k, ms)
    \/ \E k \in Keys : handle_persist(k)
    \/ \E k \in Keys : handle_get(k)
    \/ \E k \in Keys, v \in Values, w \in BOOLEAN : handle_set_oserror(k, v, w)
    \/ \E k \in Keys, w \in BOOLEAN : handle_del_oserror(k, w)
    \/ \E k \in Keys, ms \in Millis, w \in BOOLEAN :
          handle_expire_oserror(k, ms, w)
    \/ \E k \in Keys, w \in BOOLEAN : handle_persist_oserror(k, w)
    \/ Tick

SpecIO == Init /\ [][NextIO]_vars

(***************************************************************************)
(* Properties.                                                             *)
(***************************************************************************)
\* a fresh engine constructed on the log file as it is
Fresh == load_from_log(file)

\* the liveness invariant of the data model, read off the three structures
LiveAt(k) ==
    /\ k \notin tombstones
    /\ k \in DOMAIN index
    /\ k \in DOMAIN ttl => ttl[k] > now

\* an untombstoned indexed key whose TTL deadline has passed
Elapsed(k) ==
    /\ k \notin tombstones
    /\ k \in DOMAIN index
    /\ k \in DOMAIN ttl
    /\ ttl[k] <= now

\* the last record a replay of the log yields
LastRecord(f) == LET rs == replay(f) IN rs[Len(rs)]

\* file g is file f with exactly one line appended, which replays as rec
AppendsOne(f, g, rec) ==
    /\ f = <<>> \/ f[Len(f)] = "\n"
    /\ Len(g) > Len(f)
    /\ SubSeq(g, 1, Len(f)) = f
    /\ LET line == SubSeq(g, Len(f) + 1, Len(g))
       IN  /\ NumLines(line) = 1
           /\ line[Len(line)] = "\n"
           /\ replay(line) = <<rec>>

\* C1: after begin(); set(k, v); commit(), a fresh engine that replays the
\* log returns get(k) = v at the clock value of the commit, whatever TTL
\* record or tombstone k carried before the transaction.
C1_CommittedSetReplays ==
    [][\A k \in Keys, v \in Values :
         (/\ in_tx
          /\ tx_ops = <<[op |-> "SET", args |-> <<k, v>>]>>
          /\ handle_commit)
            => KVget(load_from_log(file'), k, now').ret = v]_vars

\* C2: while a transaction is open and after it is aborted, the log file is
\* the log file as it was when the transaction began: no command issued
\* inside the transaction, nor abort, appends a record.
C2_AbortLeavesLog ==
    txlog.state \in {"open", "aborted"} => file = txlog.file

\* C2 witness: a transaction that had buffered two operations over a log that
\* holds records has been aborted.
C2_Witness ==
    txlog.state = "aborted" /\ txlog.ops >= 2 /\ file # <<>>

\* C3: a fresh engine built by replaying the log holds the same index, the
\* same tombstone set and the same TTL table as the running engine.
C3_ReplayRebuildsEngine ==
    /\ Fresh.index = index
    /\ Fresh.tombstones = tombstones
    /\ Fresh.ttl = ttl

\* C4: for every key, at the same clock value, get, exists and ttl on a fresh
\* engine built by replaying the log return what they return on the running
\* engine.
C4_RecoveryObservablySame ==
    \A k \in Keys :
        /\ KVget(Fresh, k, now).ret = KVget(Eng, k, now).ret
        /\ KVexists(Fresh, k, now).ret = KVexists(Eng, k, now).ret
        /\ KVttl(Fresh, k, now).ret = KVttl(Eng, k, now).ret

\* what get and ttl return for every key on a fresh engine built from log f
Observed(f) ==
    LET s == load_from_log(f)
    IN  [k \in Keys |-> <<KVget(s, k, now).ret, KVttl(s, k, now).ret>>]

\* C5: after a crash at any point of commit(), a fresh engine replaying the
\* log observes the effects of every op-log entry of the transaction or of
\* none of them.
C5_CommitAllOrNothing ==
    crashTx.set =>
        Observed(file) \in {Observed(crashTx.pre), Observed(crashTx.full)}

\* the last line of the file lacks its terminator
Unterminated(f) == f # <<>> /\ f[Len(f)] # "\n"

\* the file up to and including its last line terminator
RECURSIVE TerminatedPart(_)
TerminatedPart(f) ==
    IF f = <<>> \/ f[Len(f)] = "\n" THEN f
    ELSE TerminatedPart(SubSeq(f, 1, Len(f) - 1))

\* C6: when the last line of the log lacks a line terminator, replay() yields
\* no record for that line, and replays every terminated line before it.
C6_PartialTailNotReplayed ==
    Unterminated(file) => replay(file) = replay(TerminatedPart(file))

\* a replayed record is the appended record a: same kind, key and argument
SameRecord(a, r) ==
    /\ r.op = a.op
    /\ r.key = a.key
    /\ IF a.op = "EXPIREAT" THEN IsIntStr(r.arg) /\ IntVal(r.arg) = a.ms
       ELSE r.arg = a.val

\* the records as are yielded, in their order, among the records rs
RECURSIVE YieldedInOrder(_, _)
YieldedInOrder(as, rs) ==
    IF as = <<>> THEN TRUE
    ELSE IF rs = <<>> THEN FALSE
    ELSE IF SameRecord(Head(as), Head(rs))
    THEN YieldedInOrder(Tail(as), Tail(rs))
    ELSE YieldedInOrder(as, Tail(rs))

\* C7: every record whose append returned is yielded by replay(), with the
\* same kind, key and argument, and in append order, also when it was
\* appended after a crash left an unterminated line at the end of the log.
C7_AckedRecordsReplayed == YieldedInOrder(acked, replay(file))

\* an operation's result leaves k tombstoned and without a TTL entry
Converted(r, k) == k \in r.st.tombstones /\ k \notin DOMAIN r.st.ttl

\* C8: get and exists report k present, get with the index's value, exactly
\* when k is not tombstoned, is indexed and has no TTL or a deadline after
\* now; and every operation whose liveness check meets an elapsed TTL on an
\* untombstoned indexed key leaves k tombstoned with no TTL entry.
C8_LivenessPredicate ==
    \A k \in Keys :
        /\ KVget(Eng, k, now).ret = (IF LiveAt(k) THEN index[k] ELSE None)
        /\ KVexists(Eng, k, now).ret = LiveAt(k)
        /\ Elapsed(k) =>
             /\ Converted(KVget(Eng, k, now), k)
             /\ Converted(KVexists(Eng, k, now), k)
             /\ Converted(KVdelete(Eng, k, now), k)
             /\ Converted(KVttl(Eng, k, now), k)
             /\ Converted(KVpersist(Eng, k, now), k)
             /\ \A ms \in Millis : Converted(KVexpire(Eng, k, ms, now), k)
             /\ \A b \in RangeArgs :
                  InBounds(k, b[1], b[2])
                      => Converted(range_keys(Eng, b[1], b[2], now), k)

\* C8 witness: a key held an elapsed TTL, a liveness check met it, and the
\* key is now tombstoned with no TTL entry while its value is still indexed.
C8_Witness ==
    \E k \in deadObserved :
        k \in tombstones /\ k \notin DOMAIN ttl /\ k \in DOMAIN index

\* C9: once a liveness check has found k's TTL elapsed, every operation of
\* the same engine reports k not live until a set of k is applied: get
\* absent, exists false, ttl -2, delete, expire and persist failing, and k
\* in no range result.
C9_DeadUntilSet ==
    \A k \in deadObserved :
        /\ KVget(Eng, k, now).ret = None
        /\ KVexists(Eng, k, now).ret = FALSE
        /\ KVttl(Eng, k, now).ret = -2
        /\ KVdelete(Eng, k, now).ret = FALSE
        /\ KVpersist(Eng, k, now).ret = FALSE
        /\ \A ms \in Millis :
             /\ KVexpire(Eng, k, ms, now).ret = FALSE
             /\ KVget(KVexpire(Eng, k, ms, now).st, k, now).ret = None
        /\ \A b \in RangeArgs : k \notin Range(range_keys(Eng, b[1], b[2], now).ret)

\* C9 witness: a key was found expired at an earlier clock value, another
\* key has been written since, and the log holds three records.
C9_Witness ==
    \E k \in deadObserved :
        /\ NumLines(file) >= 3
        /\ now >= 1
        /\ k \in DOMAIN Fresh.ttl
        /\ Fresh.ttl[k] < now
        /\ LastRecord(file).key # k

\* C10: set(k, v) appends exactly one SET(k, v) record, makes v the index
\* value of k, removes k from the tombstone set and leaves the TTL table as it
\* was for every key; index entries and tombstones of other keys are unchanged.
C10_SetFrame ==
    \A k \in Keys, v \in Values :
        LET r == KVset(Eng, k, v)
        IN  /\ AppendsOne(file, r.st.file, [op |-> "SET", key |-> k, arg |-> v])
            /\ IndexGet(r.st.index, k) = v
            /\ k \notin r.st.tombstones
            /\ r.st.ttl = ttl
            /\ \A j \in Keys \ {k} :
                 /\ IndexGet(r.st.index, j) = IndexGet(index, j)
                 /\ (j \in r.st.tombstones) = (j \in tombstones)

\* C10 witness: the last record of the log is a SET of a key that holds a TTL
\* entry: set has acted on it and the entry is still there.
C10_Witness ==
    /\ file # <<>>
    /\ LET r == LastRecord(file)
       IN  /\ r.op = "SET"
           /\ r.key \in DOMAIN ttl
           /\ index[r.key] = r.arg
           /\ r.key \notin tombstones

\* key k reads as v with no TTL on engine state s
LiveNoTtl(s, k, v) ==
    /\ KVget(s, k, now).ret = v
    /\ KVexists(s, k, now).ret = TRUE
    /\ KVttl(s, k, now).ret = -1

\* set(a,1); set(a,2); delete(a); set(a,3) on the engine of an empty log
SetSetDeleteSet ==
    LET a == <<"a">>
        s1 == KVset(Eng, a, <<"1">>).st
        s2 == KVset(s1, a, <<"2">>).st
        d == KVdelete(s2, a, now)
        s4 == KVset(d.st, a, <<"3">>).st
    IN  /\ d.ret = TRUE
        /\ LiveNoTtl(s4, a, <<"3">>)
        /\ LiveNoTtl(load_from_log(s4.file), a, <<"3">>)

\* C11: delete(k) on a live key tombstones k, removes its TTL entry, appends
\* exactly one DEL(k) record and returns true; on a key that is not live it
\* returns false and appends nothing; a set after the delete makes k live
\* with the new value and no TTL, and so after set(a,1); set(a,2);
\* delete(a); set(a,3) on an empty log a is live with value 3 and no TTL, in
\* the running engine and after replay.
C11_DeleteContract ==
    /\ \A k \in Keys :
         LET r == KVdelete(Eng, k, now)
         IN  IF LiveAt(k)
             THEN /\ r.ret = TRUE
                  /\ k \in r.st.tombstones
                  /\ k \notin DOMAIN r.st.ttl
                  /\ AppendsOne(file, r.st.file,
                                [op |-> "DEL", key |-> k, arg |-> <<>>])
                  /\ \A v \in Values : LiveNoTtl(KVset(r.st, k, v).st, k, v)
             ELSE /\ r.ret = FALSE
                  /\ r.st.file = file
    /\ file = <<>> => SetSetDeleteSet

\* C11 witness: the last record of the log is the DEL of a key that carried
\* a TTL record; the key is tombstoned and its TTL entry is gone.
C11_Witness ==
    /\ NumLines(file) >= 3
    /\ LET rs == replay(file)
           r == LastRecord(file)
       IN  /\ r.op = "DEL"
           /\ r.key \in tombstones
           /\ r.key \notin DOMAIN ttl
           /\ \E i \in 1..Len(rs) : rs[i].op = "EXPIREAT" /\ rs[i].key = r.key

\* expire(k, ms) on a live key: the deadline now + ms is set and logged as
\* one EXPIREAT record, and with ms <= 0 the key reads as absent from now on
ExpireOnLive(k, ms) ==
    LET r == KVexpire(Eng, k, ms, now)
    IN  /\ r.ret = TRUE
        /\ r.st.ttl = DictPut(ttl, k, now + ms)
        /\ AppendsOne(file, r.st.file,
                      [op |-> "EXPIREAT", key |-> k, arg |-> IntToStr(now + ms)])
        /\ IntVal(IntToStr(now + ms)) = now + ms
        /\ ms <= 0 =>
             \A t \in now..MaxClock :
                 /\ KVget(r.st, k, t).ret = None
                 /\ KVttl(r.st, k, t).ret = -2

\* C12 as stated: expire on a live key sets and logs the deadline now + ms
\* and returns true; expire on a key that is not live returns false, appends
\* no record and leaves the TTL table exactly as it was.
C12_ExpireAsStated ==
    \A k \in Keys, ms \in ExpireMillis :
        LET r == KVexpire(Eng, k, ms, now)
        IN  IF LiveAt(k) THEN ExpireOnLive(k, ms)
            ELSE /\ r.ret = FALSE
                 /\ r.st.file = file
                 /\ r.st.ttl = ttl

\* C12: expire on a live key sets and logs the deadline now + ms and returns
\* true; expire on a key that is not live returns false, appends no record
\* and sets no deadline: the TTL table is as it was, except that the elapsed
\* entry of k itself is removed by the liveness check.
C12_ExpireContract ==
    \A k \in Keys, ms \in ExpireMillis :
        LET r == KVexpire(Eng, k, ms, now)
        IN  IF LiveAt(k) THEN ExpireOnLive(k, ms)
            ELSE /\ r.ret = FALSE
                 /\ r.st.file = file
                 /\ r.st.ttl = IF Elapsed(k) THEN DictPop(ttl, k) ELSE ttl

\* C12 witness: the last record of the log is an EXPIREAT whose deadline is
\* not after now; its key still holds that deadline in the TTL table, so
\* the key is not live and its entry is elapsed.
C12_Witness ==
    /\ NumLines(file) >= 2
    /\ LET r == LastRecord(file)
       IN  /\ r.op = "EXPIREAT"
           /\ Elapsed(r.key)
           /\ IntVal(r.arg) = ttl[r.key]

\* C13: ttl(k) returns -2 exactly when k is not live, -1 exactly when k is
\* live without a TTL entry, and otherwise deadline - now, which is positive;
\* it returns no other value, and when it meets an elapsed TTL it leaves k
\* tombstoned with no TTL entry.
C13_TtlResult ==
    \A k \in Keys :
        LET r == KVttl(Eng, k, now)
        IN  /\ (r.ret = -2) = ~LiveAt(k)
            /\ (r.ret = -1) = (LiveAt(k) /\ k \notin DOMAIN ttl)
            /\ (LiveAt(k) /\ k \in DOMAIN ttl) => r.ret = ttl[k] - now
            /\ r.ret \in {-2, -1} \/ r.ret > 0
            /\ Elapsed(k) => Converted(r, k)
            /\ r.st.file = file

\* C13 witness: at a clock value after the start, one key is live with time
\* remaining on its TTL and the other key is not live.
C13_Witness ==
    /\ now >= 1
    /\ \E k \in Keys :
         /\ LiveAt(k)
         /\ k \in DOMAIN ttl
         /\ KVttl(Eng, k, now).ret = ttl[k] - now
         /\ \E j \in Keys \ {k} : KVttl(Eng, j, now).ret = -2

\* k is visible in the view of the open transaction
TxVisible(k) ==
    IF k \in DOMAIN tx_buffer THEN tx_buffer[k] # None ELSE LiveAt(k)

\* k carries a TTL in the view of the open transaction: the last buffered
\* operation on k's TTL is an EXPIRE, or there is none and the engine holds
\* a TTL entry for k
TxHasTtl(k) ==
    LET on == {i \in 1..Len(tx_ops) :
                 /\ tx_ops[i].op \in {"EXPIRE", "PERSIST", "DEL"}
                 /\ tx_ops[i].args[1] = k}
    IN  IF on = {} THEN k \in DOMAIN ttl
        ELSE tx_ops[CHOOSE i \in on : \A j \in on : j <= i].op = "EXPIRE"

\* C14: persist(k) returns true exactly when k is live and has a TTL entry,
\* and then removes the entry and appends exactly one PERSIST(k) record; in
\* every other case it returns false and appends nothing; inside a
\* transaction PERSIST reports success exactly when k is visible in the
\* transaction's view and carries a TTL there.
C14_PersistResult ==
    /\ \A k \in Keys :
         LET r == KVpersist(Eng, k, now)
         IN  /\ r.ret = (LiveAt(k) /\ k \in DOMAIN ttl)
             /\ IF r.ret
                THEN /\ r.st.ttl = DictPop(ttl, k)
                     /\ replay(r.st.file)
                          = Append(replay(file),
                                   [op |-> "PERSIST", key |-> k, arg |-> <<>>])
                     /\ NumLines(r.st.file) = NumLines(file) + 1
                ELSE r.st.file = file
    /\ in_tx =>
         \A k \in Keys :
             (persist_reply(k) = <<Bool01(TRUE)>>)
                 = (TxVisible(k) /\ TxHasTtl(k))

\* the (start, end) pairs a range is asked for in the properties
BoundPairs ==
    RangeArgs \cup {<< <<"a">>, <<"a">> >>, << <<"b">>, <<"a">> >>,
                    << <<"a">>, <<"b">> >>}

\* start <= k <= end in lexicographic order, an empty bound being open
Within(k, start, end) ==
    /\ start = <<>> \/ k = start \/ StrLess(start, k)
    /\ end = <<>> \/ k = end \/ StrLess(k, end)

\* the sequence is strictly ascending
Ascending(seq) ==
    \A i \in 1..Len(seq), j \in 1..Len(seq) : i < j => StrLess(seq[i], seq[j])

\* set(a,1); set(b,2); range("", "a") on the engine of an empty log
SetSetRange ==
    LET s1 == KVset(Eng, <<"a">>, <<"1">>).st
        s2 == KVset(s1, <<"b">>, <<"2">>).st
    IN  range_keys(s2, <<>>, <<"a">>, now).ret = << <<"a">> >>

\* C15: the engine's range(start, end) yields only keys live at the call
\* that lie within the bounds, each at most once and in strictly ascending
\* order; after set(a,1); set(b,2) on an empty log, range("", "a") yields
\* exactly [a].
C15_RangeSound ==
    /\ \A b \in BoundPairs :
         LET r == range_keys(Eng, b[1], b[2], now).ret
         IN  /\ \A i \in 1..Len(r) : LiveAt(r[i]) /\ Within(r[i], b[1], b[2])
             /\ Ascending(r)
    /\ file = <<>> => SetSetRange

\* C15 witness: both keys are live, and the range with no lower bound and
\* upper bound a yields a alone.
C15_Witness ==
    /\ \A k \in Keys : LiveAt(k)
    /\ range_keys(Eng, <<>>, <<"a">>, now).ret = << <<"a">> >>
    /\ Len(range_keys(Eng, <<>>, <<>>, now).ret) = 2

\* C16: the engine's range(start, end) yields every live key within the
\* bounds unless the key has the 8-4-4-4-12 hexadecimal shape: a live key
\* within the bounds is missing from the result only if it has that shape.
C16_RangeOmitsOnlySynthetic ==
    \A k \in SynthKeys : \A start \in {<<>>, k}, end \in {<<>>, k} :
        (/\ LiveAt(k)
         /\ Within(k, start, end)
         /\ k \notin Range(range_keys(Eng, start, end, now).ret))
            => UUID_RE(k)

\* C17: no line a RANGE command prints before END, outside or inside a
\* transaction, is a key of the 8-4-4-4-12 hexadecimal shape, a key of that
\* shape pending-set in the transaction buffer included.
C17_NoSyntheticInRange ==
    \A k \in SynthKeys : \A start \in {<<>>, k}, end \in {<<>>, k} :
        LET out == range_reply(start, end)
        IN  \A i \in 1..(Len(out) - 1) : ~UUID_RE(out[i])

PendingDeleted(k) == k \in DOMAIN tx_buffer /\ tx_buffer[k] = None
PendingSet(k) == k \in DOMAIN tx_buffer /\ tx_buffer[k] # None

\* C18: inside a transaction RANGE prints exactly the engine's range result
\* for the bounds, less the keys pending-deleted in the buffer, plus the keys
\* pending-set in the buffer that lie within the bounds, each once and in
\* ascending order, and then END.
C18_TxRange ==
    in_tx =>
        \A b \in BoundPairs :
            LET out == range_reply(b[1], b[2])
                keys == SubSeq(out, 1, Len(out) - 1)
                base == Range(range_keys(Eng, b[1], b[2], now).ret)
            IN  /\ out[Len(out)] = MSG_END
                /\ Range(keys)
                     = (base \ {k \in Keys : PendingDeleted(k)})
                         \cup {k \in Keys : PendingSet(k) /\ Within(k, b[1], b[2])}
                /\ Ascending(keys)
                /\ \A k \in Keys :
                     (PendingDeleted(k) \/ (PendingSet(k) /\ ~Within(k, b[1], b[2])))
                         => k \notin Range(keys)

\* C18 witness: inside a transaction a is pending-deleted while live in the
\* engine and b is pending-set while not live in the engine; RANGE up to a
\* prints no key and RANGE without bounds prints b.
C18_Witness ==
    /\ in_tx
    /\ PendingDeleted(<<"a">>) /\ LiveAt(<<"a">>)
    /\ PendingSet(<<"b">>) /\ ~LiveAt(<<"b">>)
    /\ range_reply(<<>>, <<"a">>) = <<MSG_END>>
    /\ range_reply(<<>>, <<>>) = << <<"b">>, MSG_END >>

\* the op-log entries that write k: its SETs and its DELs
TxWrites(k) ==
    {i \in 1..Len(tx_ops) :
        tx_ops[i].op \in {"SET", "DEL"} /\ tx_ops[i].args[1] = k}

\* the last of them
LastTxWrite(k) == tx_ops[CHOOSE i \in TxWrites(k) : \A j \in TxWrites(k) : j <= i]

\* C19: inside a transaction get(k) and exists(k) return the pending value
\* of k if it is pending-set, absent and false if it is pending-deleted, and
\* the engine's result otherwise; so after a set(k, v) of the transaction
\* get(k) returns v, and after a delete(k) that reported found it returns
\* absent, as long as that is the transaction's last write of k.
C19_ReadYourWrites ==
    in_tx =>
        \A k \in Keys :
            LET g == get_call(k).ret
                e == exists_call(k).ret
            IN  /\ PendingSet(k) => g = tx_buffer[k] /\ e = TRUE
                /\ PendingDeleted(k) => g = None /\ e = FALSE
                /\ k \notin DOMAIN tx_buffer =>
                     /\ g = KVget(Eng, k, now).ret
                     /\ e = KVexists(Eng, k, now).ret
                /\ TxWrites(k) # {} =>
                     IF LastTxWrite(k).op = "SET"
                     THEN g = LastTxWrite(k).args[2] /\ e = TRUE
                     ELSE g = None /\ e = FALSE

\* C19 witness: inside a transaction one key live in the engine has been
\* deleted and reads as absent, and the other key, not live in the engine,
\* has been set and reads with the value set.
C19_Witness ==
    /\ in_tx
    /\ \E k \in Keys :
         /\ TxWrites(k) # {} /\ LastTxWrite(k).op = "DEL"
         /\ LiveAt(k)
         /\ get_call(k).ret = None
         /\ \E j \in Keys \ {k} :
              /\ TxWrites(j) # {} /\ LastTxWrite(j).op = "SET"
              /\ ~LiveAt(j)
              /\ get_call(j).ret = LastTxWrite(j).args[2]

\* C20: inside a transaction DEL k reports found exactly when k is visible
\* in the transaction's view before the call; then it marks k pending-delete
\* in the buffer and appends one DEL(k) entry to the op-log; otherwise it
\* leaves the buffer and the op-log as they were; the log file is untouched.
C20_TxDelete ==
    [][\A k \in Keys :
         (in_tx /\ handle_del(k)) =>
             /\ del_reply(k) = <<Bool01(TxVisible(k))>>
             /\ file' = file
             /\ IF TxVisible(k)
                THEN /\ tx_buffer' = DictPut(tx_buffer, k, None)
                     /\ tx_ops' = Append(tx_ops, [op |-> "DEL", args |-> <<k>>])
                ELSE /\ tx_buffer' = tx_buffer
                     /\ tx_ops' = tx_ops]_vars

\* C20 witness: inside a transaction the last op-log entry is the DEL of a
\* key live in the engine; the key is pending-delete and a further DEL of it
\* reports not found, as does a DEL of the key that never existed.
C20_Witness ==
    /\ in_tx
    /\ tx_ops # <<>>
    /\ LET e == tx_ops[Len(tx_ops)]
       IN  /\ e.op = "DEL"
           /\ PendingDeleted(e.args[1])
           /\ LiveAt(e.args[1])
           /\ del_reply(e.args[1]) = <<Bool01(FALSE)>>
           /\ \E j \in Keys :
                j \notin DOMAIN index /\ del_reply(j) = <<Bool01(FALSE)>>

\* the engine's three in-memory structures and the log file
EngineUnchanged == UNCHANGED <<index, tombstones, ttl, file>>

\* C21: BEGIN inside a transaction prints the nested-transaction error and
\* leaves the transaction open with its buffer and op-log as they were;
\* COMMIT and ABORT outside a transaction print the no-transaction error and
\* leave the overlay idle; none of the three changes the engine's index,
\* tombstone set, TTL table or the log file.
C21_UsageErrors ==
    /\ [](in_tx => begin_reply = <<ERR_TX_NESTED>>)
    /\ [](~in_tx => commit_reply = <<ERR_NO_TX>> /\ abort_reply = <<ERR_NO_TX>>)
    /\ [][/\ (in_tx /\ handle_begin) =>
               /\ in_tx'
               /\ UNCHANGED <<tx_buffer, tx_ops>>
               /\ EngineUnchanged
          /\ (~in_tx /\ (handle_commit \/ handle_abort)) =>
               /\ ~in_tx'
               /\ UNCHANGED <<tx_buffer, tx_ops>>
               /\ EngineUnchanged]_vars

\* C21 witness: a transaction is open over a log that holds records and has
\* buffered a set and a further operation, and BEGIN answers with the error.
C21_Witness ==
    /\ in_tx
    /\ file # <<>>
    /\ Len(tx_ops) >= 2
    /\ DOMAIN tx_buffer # {}
    /\ begin_reply = <<ERR_TX_NESTED>>

\* replayed record r is the record the engine operation of op-log entry e
\* appends at clock value t
RecordOf(e, r, t) ==
    /\ r.key = e.args[1]
    /\ IF e.op = "SET" THEN r.op = "SET" /\ r.arg = e.args[2]
       ELSE IF e.op = "DEL" THEN r.op = "DEL"
       ELSE IF e.op = "PERSIST" THEN r.op = "PERSIST"
       ELSE /\ e.op = "EXPIRE"
            /\ r.op = "EXPIREAT"
            /\ IsIntStr(r.arg)
            /\ IntVal(r.arg) = t + IntVal(e.args[2])

\* every record of rs is the record of an entry of es, each of its own
\* entry, the records in the order of their entries
RECURSIVE WrittenInOrder(_, _, _)
WrittenInOrder(rs, es, t) ==
    IF rs = <<>> THEN TRUE
    ELSE IF es = <<>> THEN FALSE
    ELSE IF RecordOf(Head(es), Head(rs), t)
    THEN WrittenInOrder(Tail(rs), Tail(es), t)
    ELSE WrittenInOrder(rs, Tail(es), t)

\* the number of elements of seq that are of kind op
CountOp(seq, op) == Cardinality({i \in 1..Len(seq) : seq[i].op = op})

\* the records of the lines file g holds after those of file f
AppendedRecords(f, g) == replay(SubSeq(g, Len(f) + 1, Len(g)))

\* C22: COMMIT inside a transaction applies the op-log entries to the engine
\* in the order they were issued: the log grows by records that are, in
\* order, the records of op-log entries, one for every SET entry and at most
\* one for any other entry (none when the engine operation reports failure);
\* when it returns, no transaction is open and the buffer and the op-log
\* are empty.
C22_CommitInOrder ==
    [][(in_tx /\ handle_commit) =>
          /\ ~in_tx'
          /\ tx_buffer' = EmptyDict
          /\ tx_ops' = <<>>
          /\ Len(file') >= Len(file)
          /\ SubSeq(file', 1, Len(file)) = file
          /\ LET rs == AppendedRecords(file, file')
             IN  /\ WrittenInOrder(rs, tx_ops, now)
                 /\ CountOp(rs, "SET") = CountOp(tx_ops, "SET")
                 /\ Len(rs) = NumLines(file') - NumLines(file)]_vars

\* C22 witness: the open transaction holds at least two entries, and COMMIT
\* now appends the record of one entry after the record of an earlier one
\* and appends nothing for an entry whose engine operation reports failure.
C22_Witness ==
    /\ in_tx
    /\ Len(tx_ops) >= 3
    /\ LET rs == AppendedRecords(file, commit_call.st.file)
       IN  /\ Len(rs) = 2
           /\ rs[1] # rs[2]
           /\ WrittenInOrder(rs, tx_ops, now)

\* C23: when the append of set, delete, expire or persist raises a storage
\* I/O error, the index, the tombstone set and the TTL table are as they
\* were before the call.
C23_FailedAppendLeavesMemory ==
    [][\A k \in Keys, w \in BOOLEAN :
         (\/ \E v \in Values : handle_set_oserror(k, v, w)
          \/ handle_del_oserror(k, w)
          \/ \E ms \in Millis : handle_expire_oserror(k, ms, w)
          \/ handle_persist_oserror(k, w))
            => UNCHANGED <<index, tombstones, ttl>>]_vars

\* C24: SET, DEL, EXPIRE and PERSIST issued inside a transaction leave the
\* engine's index, tombstone set and TTL table as they were, at every
\* engine state and clock value, also when the key has a TTL whose deadline
\* has passed and that no liveness check has met yet.
C24_TxWritesLeaveEngine ==
    [][\A k \in Keys :
         (/\ in_tx
          /\ \/ \E v \in Values : handle_set(k, v)
             \/ handle_del(k)
             \/ \E ms \in Millis : handle_expire(k, ms)
             \/ handle_persist(k))
            => UNCHANGED <<index, tombstones, ttl>>]_vars

\* C25: in every state reached from an empty log by the commands, inside
\* and outside transactions, clock advances and restarts that replay the
\* log, no key is both tombstoned and in the TTL table, and every key of the
\* TTL table is a key of the index.
C25_TripleConsistent ==
    /\ tombstones \cap DOMAIN ttl = {}
    /\ DOMAIN ttl \subseteq DOMAIN index

\* C25 witness: the log gives a key a TTL and then deletes it, and the
\* engine is as a replay of that log builds it: the key is indexed and
\* tombstoned and has no TTL entry.
C25_Witness ==
    /\ Fresh.tombstones = tombstones
    /\ Fresh.ttl = ttl
    /\ \E k \in tombstones :
          /\ k \in DOMAIN index
          /\ k \notin DOMAIN ttl
          /\ LET rs == replay(file)
             IN  \E i, j \in 1..Len(rs) :
                    /\ i < j
                    /\ rs[i].op = "EXPIREAT" /\ rs[i].key = k
                    /\ rs[j].op = "DEL" /\ rs[j].key = k

\* C26: for every key, GET and EXISTS issued right after COMMIT, at the same
\* clock value, answer what they answered inside the transaction right
\* before the COMMIT.
C26_CommitKeepsView ==
    [][(in_tx /\ handle_commit) =>
          \A k \in Keys :
             /\ KVget(Eng', k, now').ret
                  = tx_get_view(Eng, tx_buffer, k, now).ret
             /\ KVexists(Eng', k, now').ret
                  = tx_exists_view(Eng, tx_buffer, k, now).ret]_vars

=============================================================================
